---- MODULE Spec2Model ----
(***************************************************************************)
(* Frame loop and coordinate model of the surfman/webrender demo harness:  *)
(* app.rs (run, Notifier, the App trait), compositor.rs (Compositor) and   *)
(* window.rs (EmbedderCoordinates, Window::get_coordinates).               *)
(*                                                                         *)
(* The windowing service, the GL context and the renderer are the          *)
(* environment: the results of their calls are inputs of the actions.      *)
(* The scene strategy (the App implementation) is abstract: the value its  *)
(* on_event returns is an input.                                           *)
(*                                                                         *)
(* f32 quantities are modelled exactly: the hidpi factor is a number of    *)
(* quarters (5 is 1.25) and a quotient is a pair <<numerator,              *)
(* denominator>> compared by cross-multiplication.                         *)
(***************************************************************************)
EXTENDS Integers, Sequences, FiniteSets, TLC

\* ------------------------------------------------------------------ bounds

\* Largest logical (device-independent) window dimension.
MaxDim == 3
\* Most scene submissions followed in one run.
MaxSubmits == 3
\* Most successive flips of one viewport.
MaxFlips == 2
MaxAnimSteps == 3
\* Most wake-up events queued in the events loop at a time.
MaxWake == 1

\* Denominator of the hidpi factors: HidpiDen quarters make 1.0.
HidpiDen == 4

\* ----------------------------------------------------------- pure helpers

None == [ok |-> FALSE, a |-> 0, b |-> 0]
Some(a, b) == [ok |-> TRUE, a |-> a, b |-> b]

\* to_i32 as it would be if it rounded to the nearest integer.
to_i32_Round(num, den) ==
    IF num >= 0 THEN (2 * num + den) \div (2 * den)
    ELSE -((2 * (-num) + den) \div (2 * den))

\* f32 -> i32 as euclid's to_i32 does it (a NumCast): toward zero.
to_i32(num, den) ==
    IF num >= 0 THEN num \div den ELSE -((-num) \div den)

\* Equality of two quotients <<n, d>> with d > 0.
RatEq(p, q) == p[1] * q[2] = q[1] * p[2]

Has(s, x) == \E i \in 1..Len(s) : s[i] = x
Count(s, x) == Cardinality({i \in 1..Len(s) : s[i] = x})

\* ------------------------------------------------------------ window.rs

\* The raw metrics the windowing service reports for the window.
HidpiFactors == {HidpiDen - 1, HidpiDen, HidpiDen + 1, 2 * HidpiDen}
LoopHidpiFactors == {HidpiDen + 1, 2 * HidpiDen}
InnerSizes == {None, Some(0, 0), Some(MaxDim, MaxDim - 1)}
OuterSizes == {None, Some(MaxDim, MaxDim)}
Positions == {None, Some(0 - MaxDim, 1)}
ScreenSize == <<2 * MaxDim + 1, 2 * MaxDim>>

LoopWindows ==
    [hidpi : LoopHidpiFactors, outer : OuterSizes, inner : InnerSizes,
     position : {Some(0 - MaxDim, 1)}]

\* get_outer_size / get_inner_size with .expect(): None panics.
SizeQueryFails(win) == ~win.outer.ok \/ ~win.inner.ok

\* Scale a logical quantity by the hidpi factor and truncate.
ScaleToDevice(n, hidpi) == to_i32(n * hidpi, HidpiDen)

\* get_coordinates as it would be if it kept the inner size at least 1 x 1.
get_coordinates_MinOne(win) ==
    LET dpr == win.hidpi
        pos == IF win.position.ok THEN win.position ELSE Some(0, 0)
        win_size == <<ScaleToDevice(win.outer.a, dpr), ScaleToDevice(win.outer.b, dpr)>>
        win_origin == <<ScaleToDevice(pos.a, dpr), ScaleToDevice(pos.b, dpr)>>
        screen == <<ScaleToDevice(ScreenSize[1], dpr), ScaleToDevice(ScreenSize[2], dpr)>>
        scaled == <<ScaleToDevice(win.inner.a, dpr), ScaleToDevice(win.inner.b, dpr)>>
        inner_size == <<IF scaled[1] < 1 THEN 1 ELSE scaled[1],
                        IF scaled[2] < 1 THEN 1 ELSE scaled[2]>>
        viewport == [origin |-> <<0, 0>>, size |-> inner_size]
        framebuffer == viewport.size
        hidpi_factor == win.hidpi
    IN  [hidpi_factor |-> hidpi_factor,
         screen |-> screen,
         window |-> <<win_size, win_origin>>,
         framebuffer |-> framebuffer,
         viewport |-> viewport,
         layout |-> << <<framebuffer[1] * HidpiDen, hidpi_factor>>,
                       <<framebuffer[2] * HidpiDen, hidpi_factor>> >>]

\* Window::get_coordinates, for a window whose size queries succeed.
get_coordinates(win) ==
    LET dpr == win.hidpi
        pos == IF win.position.ok THEN win.position ELSE Some(0, 0)
        win_size == <<ScaleToDevice(win.outer.a, dpr), ScaleToDevice(win.outer.b, dpr)>>
        win_origin == <<ScaleToDevice(pos.a, dpr), ScaleToDevice(pos.b, dpr)>>
        screen == <<ScaleToDevice(ScreenSize[1], dpr), ScaleToDevice(ScreenSize[2], dpr)>>
        inner_size == <<ScaleToDevice(win.inner.a, dpr), ScaleToDevice(win.inner.b, dpr)>>
        viewport == [origin |-> <<0, 0>>, size |-> inner_size]
        framebuffer == viewport.size
        hidpi_factor == win.hidpi
    IN  [hidpi_factor |-> hidpi_factor,
         screen |-> screen,
         window |-> <<win_size, win_origin>>,
         framebuffer |-> framebuffer,
         viewport |-> viewport,
         layout |-> << <<framebuffer[1] * HidpiDen, hidpi_factor>>,
                       <<framebuffer[2] * HidpiDen, hidpi_factor>> >>]

\* The coordinates of a window of size zero at the origin, at scale 1.0:
\* the value of the record before any coordinates were resolved.
NoCoords ==
    get_coordinates([hidpi |-> HidpiDen, outer |-> Some(0, 0), inner |-> Some(0, 0),
                     position |-> None])

\* get_flipped_viewport as it would be if it kept the origin non-negative.
get_flipped_viewport_Clamped(c) ==
    LET fb_height == c.framebuffer[2]
        view == c.viewport
        y == fb_height - view.origin[2] - view.size[2]
    IN  [origin |-> <<view.origin[1], IF y < 0 THEN 0 ELSE y>>,
         size |-> view.size]

\* EmbedderCoordinates::get_flipped_viewport.
get_flipped_viewport(c) ==
    LET fb_height == c.framebuffer[2]
        view == c.viewport
    IN  [origin |-> <<view.origin[1], fb_height - view.origin[2] - view.size[2]>>,
         size |-> view.size]

\* -------------------------------------------------------- compositor.rs

\* get_layout_size as it would be if it scaled the window's outer size.
get_layout_size_FromWindow(win) ==
    LET coordinates == get_coordinates(win)
    IN  << <<coordinates.window[1][1] * HidpiDen, coordinates.hidpi_factor>>,
           <<coordinates.window[1][2] * HidpiDen, coordinates.hidpi_factor>> >>

\* Compositor::get_layout_size: viewport.size / hidpi_factor.
get_layout_size(win) ==
    LET coordinates == get_coordinates(win)
    IN  << <<coordinates.viewport.size[1] * HidpiDen, coordinates.hidpi_factor>>,
           <<coordinates.viewport.size[2] * HidpiDen, coordinates.hidpi_factor>> >>

\* composite as it would be if it took the context to be current already.
composite_AssumeCurrent(win, ctxOk, glFault, dbg) ==
    LET log1 == IF ctxOk THEN <<>> ELSE <<"Failed to make GL context current">>
        s1 == <<>>
        s2 == s1 \o <<"bind_framebuffer">>
        s3 == s2 \o <<"update", "get_coordinates">>
        s4 == s3 \o <<"clear", "get_coordinates", "scissor", "clear">>
        c == get_coordinates(win)
        v == get_flipped_viewport(c)
        none == [size |-> <<0, 0>>, scissor |-> <<0, 0, 0, 0>>, coords |-> NoCoords]
    IN  IF dbg /\ glFault = "gl_error"
        THEN [calls |-> s1, log |-> log1, panicked |-> TRUE] @@ none
        ELSE IF dbg /\ glFault = "fb_incomplete"
        THEN [calls |-> s2, log |-> log1, panicked |-> TRUE] @@ none
        ELSE IF SizeQueryFails(win)
        THEN [calls |-> s3, log |-> log1, panicked |-> TRUE] @@ none
        ELSE [calls |-> s4 \o <<"render">>, log |-> log1, panicked |-> FALSE,
              size |-> c.framebuffer,
              scissor |-> <<v.origin[1], v.origin[2], v.size[1], v.size[2]>>,
              coords |-> c]

\* Compositor::composite. ctxOk is the result of make_gl_context_current,
\* glFault what the GL state would make the debug assertions see. The
\* Result of webrender.render is dropped by .ok(), so it is no input.
composite(win, ctxOk, glFault, dbg) ==
    LET log1 == IF ctxOk THEN <<>> ELSE <<"Failed to make GL context current">>
        s1 == <<"make_gl_context_current">>
        s2 == s1 \o <<"bind_framebuffer">>
        s3 == s2 \o <<"update", "get_coordinates">>
        s4 == s3 \o <<"clear", "get_coordinates", "scissor", "clear">>
        c == get_coordinates(win)
        v == get_flipped_viewport(c)
        none == [size |-> <<0, 0>>, scissor |-> <<0, 0, 0, 0>>, coords |-> NoCoords]
    IN  IF dbg /\ glFault = "gl_error"
        THEN [calls |-> s1, log |-> log1, panicked |-> TRUE] @@ none
        ELSE IF dbg /\ glFault = "fb_incomplete"
        THEN [calls |-> s2, log |-> log1, panicked |-> TRUE] @@ none
        ELSE IF SizeQueryFails(win)
        THEN [calls |-> s3, log |-> log1, panicked |-> TRUE] @@ none
        ELSE [calls |-> s4 \o <<"render">>, log |-> log1, panicked |-> FALSE,
              size |-> c.framebuffer,
              scissor |-> <<v.origin[1], v.origin[2], v.size[1], v.size[2]>>,
              coords |-> c]

\* present as it would be if it unwrapped the result of the page flip.
present_Unwrap(presentOk) ==
    [calls |-> <<"present">>,
     log |-> IF presentOk THEN <<>> ELSE <<"Failed to present surface">>,
     panicked |-> ~presentOk]

\* Compositor::present: a failure is printed, nothing else.
present(presentOk) ==
    [calls |-> <<"present">>,
     log |-> IF presentOk THEN <<>> ELSE <<"Failed to present surface">>,
     panicked |-> FALSE]

\* Compositor::send_display_list: the layout size is resolved first, as an
\* argument of set_display_list; the transaction asks for a new frame.
send_display_list(win) ==
    IF SizeQueryFails(win)
    THEN [calls |-> <<"get_layout_size">>, panicked |-> TRUE,
          layout |-> << <<0, 1>>, <<0, 1>> >>]
    ELSE [calls |-> <<"get_layout_size", "send_display_list">>, panicked |-> FALSE,
          layout |-> get_layout_size(win)]

\* Compositor::deinit.
deinit(ctxOk) ==
    [calls |-> <<"make_gl_context_current", "deinit">>,
     log |-> IF ctxOk THEN <<>> ELSE <<"Failed to make GL context current">>]

\* ---------------------------------------------------------------- app.rs

VARIABLES
    status,          \* where run() is: "start", "running", "stopped", "done", "panicked"
    debug,           \* whether the build has debug assertions
    window,          \* the metrics the windowing service currently reports
    wakeups,         \* Awakened events queued by the notifier
    frameRequested,  \* a transaction asked the renderer for a frame
    submitted,       \* the epochs of the scene submissions so far, oldest first
    deinits,         \* calls of webrender.deinit so far
    event,           \* the event the last handler invocation was given
    onEventRet,      \* what on_event returned in it (FALSE when not called)
    calls,           \* the calls the last step made, in order
    log,             \* the messages it printed
    frame,           \* the layout size it submitted, the framebuffer size it
                     \* rendered with, its scissored clear rectangle
    anim             \* the Animation example's strategy object (its f32 fields)

vars == <<status, debug, window, wakeups, frameRequested, submitted, deinits,
          event, onEventRet, calls, log, frame, anim>>

\* let epoch = Epoch(0): bound once, never reassigned.
epoch == 0

Ev(kind, state, key) == [kind |-> kind, state |-> state, key |-> key]
NoEvent == Ev("none", "-", "-")
\* Event::Awakened and the other events that are no WindowEvent.
Awakened == Ev("Awakened", "-", "-")
DeviceEvent == Ev("DeviceEvent", "-", "-")
CloseRequested == Ev("CloseRequested", "-", "-")
CursorMoved == Ev("CursorMoved", "-", "-")
AxisMotion == Ev("AxisMotion", "-", "-")
Resized == Ev("Resized", "-", "-")
\* virtual_keycode: "NoKey" is None.
KeyboardInputs ==
    {Ev("KeyboardInput", "Pressed", k) : k \in {"NoKey", "Escape", "A"}}
    \cup {Ev("KeyboardInput", "Released", k) : k \in {"Escape", "A"}}
WindowEvents == {CloseRequested, CursorMoved, AxisMotion, Resized} \cup KeyboardInputs
Events == {Awakened, DeviceEvent} \cup WindowEvents

IsWindowEvent(ev) == ev \in WindowEvents
IsMotion(ev) == ev.kind \in {"AxisMotion", "CursorMoved"}
\* KeyboardInput { state: Pressed, virtual_keycode: Some(key) }
IsKeyPress(ev) == ev.kind = "KeyboardInput" /\ ev.state = "Pressed" /\ ev.key # "NoKey"

\* The match as it would be if Escape had no arm of its own.
IsQuit_CloseOnly(ev) == ev.kind = "CloseRequested"

\* The arms of the match that return ControlFlow::Break.
IsQuit(ev) == ev.kind = "CloseRequested" \/ (IsKeyPress(ev) /\ ev.key = "Escape")

\* The arms of the match that call app.on_event.
CallsOnEvent(ev) == IsWindowEvent(ev) /\ ~IsQuit(ev) /\ (IsMotion(ev) \/ ~IsKeyPress(ev))

\* custom_event after the match: true unless an on_event call overwrote it.
custom_event(ev, ret) == IF CallsOnEvent(ev) THEN ret ELSE TRUE

\* The motion arm as it would be without its early return.
SkipsFrame_NoEarlyReturn(ev, ret) == FALSE

\* if !custom_event { return Continue } in the motion arm.
SkipsFrame(ev, ret) == IsMotion(ev) /\ ~custom_event(ev, ret)

NoFrame == [layout |-> << <<0, 1>>, <<0, 1>> >>, size |-> <<0, 0>>,
            scissor |-> <<0, 0, 0, 0>>, coords |-> NoCoords]

\* The closure as it would be if it presented before it built and composited.
frame_loop_PresentFirst(ev, ret, win, ctxOk, glFault, presentOk, dbg) ==
    LET idle == [flow |-> "Continue", calls |-> <<>>, log |-> <<>>,
                 submits |-> FALSE, frame |-> NoFrame]
        dispatch == IF CallsOnEvent(ev) THEN <<"on_event">> ELSE <<>>
        rebuild == custom_event(ev, ret)
        sent == send_display_list(win)
        built == IF rebuild THEN <<"build_display_list">> \o sent.calls ELSE <<>>
        comp == composite(win, ctxOk, glFault, dbg)
        pres == present(presentOk)
    IN  IF ~IsWindowEvent(ev) THEN idle
        ELSE IF IsQuit(ev) THEN [idle EXCEPT !.flow = "Break"]
        ELSE IF SkipsFrame(ev, ret) THEN [idle EXCEPT !.calls = dispatch]
        ELSE IF rebuild /\ sent.panicked
        THEN [flow |-> "Panic", calls |-> dispatch \o built, log |-> <<>>,
              submits |-> FALSE, frame |-> NoFrame]
        ELSE IF comp.panicked
        THEN [flow |-> "Panic", calls |-> dispatch \o built \o comp.calls,
              log |-> comp.log, submits |-> rebuild,
              frame |-> [NoFrame EXCEPT !.layout = IF rebuild THEN sent.layout ELSE @]]
        ELSE [flow |-> IF pres.panicked THEN "Panic" ELSE "Continue",
              calls |-> dispatch \o pres.calls \o built \o comp.calls \o <<"draw_custom">>,
              log |-> comp.log \o pres.log,
              submits |-> rebuild,
              frame |-> [layout |-> IF rebuild THEN sent.layout ELSE NoFrame.layout,
                         size |-> comp.size, scissor |-> comp.scissor,
                         coords |-> comp.coords]]

\* The closure as it would be if the composite kept the coordinates of the
\* last frame drawn instead of resolving them again.
frame_loop_CachedCoords(ev, ret, win, ctxOk, glFault, presentOk, dbg) ==
    LET idle == [flow |-> "Continue", calls |-> <<>>, log |-> <<>>,
                 submits |-> FALSE, frame |-> NoFrame]
        dispatch == IF CallsOnEvent(ev) THEN <<"on_event">> ELSE <<>>
        rebuild == custom_event(ev, ret)
        sent == send_display_list(win)
        built == IF rebuild THEN <<"build_display_list">> \o sent.calls ELSE <<>>
        fresh == composite(win, ctxOk, glFault, dbg)
        comp == IF fresh.panicked \/ frame.coords = NoCoords
                THEN fresh
                ELSE [fresh EXCEPT !.size = frame.size, !.scissor = frame.scissor,
                                   !.coords = frame.coords]
        pres == present(presentOk)
    IN  IF ~IsWindowEvent(ev) THEN idle
        ELSE IF IsQuit(ev) THEN [idle EXCEPT !.flow = "Break"]
        ELSE IF SkipsFrame(ev, ret) THEN [idle EXCEPT !.calls = dispatch]
        ELSE IF rebuild /\ sent.panicked
        THEN [flow |-> "Panic", calls |-> dispatch \o built, log |-> <<>>,
              submits |-> FALSE, frame |-> NoFrame]
        ELSE IF comp.panicked
        THEN [flow |-> "Panic", calls |-> dispatch \o built \o comp.calls,
              log |-> comp.log, submits |-> rebuild,
              frame |-> [NoFrame EXCEPT !.layout = IF rebuild THEN sent.layout ELSE @]]
        ELSE [flow |-> IF pres.panicked THEN "Panic" ELSE "Continue",
              calls |-> dispatch \o built \o comp.calls \o <<"draw_custom">> \o pres.calls,
              log |-> comp.log \o pres.log,
              submits |-> rebuild,
              frame |-> [layout |-> IF rebuild THEN sent.layout ELSE NoFrame.layout,
                         size |-> comp.size, scissor |-> comp.scissor,
                         coords |-> comp.coords]]

\* One invocation of the closure given to run_forever:
\* what it returns, what it calls and prints, what it submits and draws.
frame_loop(ev, ret, win, ctxOk, glFault, presentOk, dbg) ==
    LET idle == [flow |-> "Continue", calls |-> <<>>, log |-> <<>>,
                 submits |-> FALSE, frame |-> NoFrame]
        dispatch == IF CallsOnEvent(ev) THEN <<"on_event">> ELSE <<>>
        rebuild == custom_event(ev, ret)
        sent == send_display_list(win)
        built == IF rebuild THEN <<"build_display_list">> \o sent.calls ELSE <<>>
        comp == composite(win, ctxOk, glFault, dbg)
        pres == present(presentOk)
    IN  IF ~IsWindowEvent(ev) THEN idle
        ELSE IF IsQuit(ev) THEN [idle EXCEPT !.flow = "Break"]
        ELSE IF SkipsFrame(ev, ret) THEN [idle EXCEPT !.calls = dispatch]
        ELSE IF rebuild /\ sent.panicked
        THEN [flow |-> "Panic", calls |-> dispatch \o built, log |-> <<>>,
              submits |-> FALSE, frame |-> NoFrame]
        ELSE IF comp.panicked
        THEN [flow |-> "Panic", calls |-> dispatch \o built \o comp.calls,
              log |-> comp.log, submits |-> rebuild,
              frame |-> [NoFrame EXCEPT !.layout = IF rebuild THEN sent.layout ELSE @]]
        ELSE [flow |-> IF pres.panicked THEN "Panic" ELSE "Continue",
              calls |-> dispatch \o built \o comp.calls \o <<"draw_custom">> \o pres.calls,
              log |-> comp.log \o pres.log,
              submits |-> rebuild,
              frame |-> [layout |-> IF rebuild THEN sent.layout ELSE NoFrame.layout,
                         size |-> comp.size, scissor |-> comp.scissor,
                         coords |-> comp.coords]]

\* examples/animation.rs, run(): the Animation handed to app::run. opacity
\* is counted in tenths (0.5 is 5), the angles in twentieths of a radian.
NewAnimation == [opacity |-> 5, angle0 |-> 0, angle1 |-> 0, angle2 |-> 0]

GlFaults == {"none", "gl_error", "fb_incomplete"}

Init ==
    /\ status = "start"
    /\ debug \in BOOLEAN
    /\ window \in LoopWindows
    /\ wakeups = 0
    /\ frameRequested = FALSE
    /\ submitted = <<>>
    /\ deinits = 0
    /\ event = NoEvent
    /\ onEventRet = FALSE
    /\ calls = <<>>
    /\ log = <<>>
    /\ frame = NoFrame
    /\ anim = NewAnimation

\* What add_font and the load of its file come to: no font, a font that
\* loads, a font whose file cannot be read (load_file unwraps).
Fonts == {"none", "loaded", "unreadable"}

\* run() as it would be if a failed Renderer::new were tried again.
Startup_RendererRetry ==
    /\ status = "start"
    /\ \E windowOk, ctxOk, rendererOk, external, output \in BOOLEAN : \E font \in Fonts :
        LET s0 == <<"Window::new">>
            s1 == s0 \o <<"make_gl_context_current">>
            s2 == s1 \o <<"get_coordinates">>
            s3 == s2 \o <<"Renderer::new">>
            s4 == s3 \o <<"get_image_handlers">>
                     \o (IF output THEN <<"set_output_image_handler">> ELSE <<>>)
                     \o (IF external THEN <<"set_external_image_handler">> ELSE <<>>)
                     \o <<"add_font">>
            s5 == s4 \o (IF font = "loaded" THEN <<"set_font_instance">> ELSE <<>>)
                     \o <<"build_display_list">>
            sent == send_display_list(window)
            panics == \/ ~windowOk \/ ~ctxOk \/ SizeQueryFails(window) \/ ~rendererOk
                      \/ font = "unreadable"
        IN  /\ calls' = IF ~windowOk THEN s0
                        ELSE IF ~ctxOk THEN s1
                        ELSE IF SizeQueryFails(window) THEN s2
                        ELSE IF ~rendererOk THEN s3
                        ELSE IF font = "unreadable" THEN s4
                        ELSE s5 \o sent.calls
            /\ status' = IF windowOk /\ ctxOk /\ ~SizeQueryFails(window) /\ ~rendererOk
                         THEN "start"
                         ELSE IF panics THEN "panicked" ELSE "running"
            /\ submitted' = IF panics THEN submitted ELSE Append(submitted, epoch)
            /\ frameRequested' = ~panics
            /\ frame' = IF panics THEN NoFrame ELSE [NoFrame EXCEPT !.layout = sent.layout]
    /\ log' = <<>>
    /\ UNCHANGED <<anim, debug, window, wakeups, deinits, event, onEventRet>>

\* run() as it would be if it entered the loop without a first scene.
Startup_NoInitialScene ==
    /\ status = "start"
    /\ \E windowOk, ctxOk, rendererOk, external, output \in BOOLEAN : \E font \in Fonts :
        LET s0 == <<"Window::new">>
            s1 == s0 \o <<"make_gl_context_current">>
            s2 == s1 \o <<"get_coordinates">>
            s3 == s2 \o <<"Renderer::new">>
            s4 == s3 \o <<"get_image_handlers">>
                     \o (IF output THEN <<"set_output_image_handler">> ELSE <<>>)
                     \o (IF external THEN <<"set_external_image_handler">> ELSE <<>>)
                     \o <<"add_font">>
            s5 == s4 \o (IF font = "loaded" THEN <<"set_font_instance">> ELSE <<>>)
                     \o <<"build_display_list">>
            sent == send_display_list(window)
            panics == \/ ~windowOk \/ ~ctxOk \/ SizeQueryFails(window) \/ ~rendererOk
                      \/ font = "unreadable"
        IN  /\ calls' = IF ~windowOk THEN s0
                        ELSE IF ~ctxOk THEN s1
                        ELSE IF SizeQueryFails(window) THEN s2
                        ELSE IF ~rendererOk THEN s3
                        ELSE IF font = "unreadable" THEN s4
                        ELSE s4
            /\ status' = IF panics THEN "panicked" ELSE "running"
            /\ submitted' = submitted
            /\ frameRequested' = ~panics
            /\ frame' = IF panics THEN NoFrame ELSE [NoFrame EXCEPT !.layout = sent.layout]
    /\ log' = <<>>
    /\ UNCHANGED <<anim, debug, window, wakeups, deinits, event, onEventRet>>

\* run() up to "Entering event loop": the window is created (expect), the
\* context is made current (unwrap), the coordinates are resolved, the
\* renderer is built (expect), the image handlers are installed, the font
\* is loaded, the first scene is built and sent with epoch.
Startup ==
    /\ status = "start"
    /\ \E windowOk, ctxOk, rendererOk, external, output \in BOOLEAN : \E font \in Fonts :
        LET s0 == <<"Window::new">>
            s1 == s0 \o <<"make_gl_context_current">>
            s2 == s1 \o <<"get_coordinates">>
            s3 == s2 \o <<"Renderer::new">>
            s4 == s3 \o <<"get_image_handlers">>
                     \o (IF output THEN <<"set_output_image_handler">> ELSE <<>>)
                     \o (IF external THEN <<"set_external_image_handler">> ELSE <<>>)
                     \o <<"add_font">>
            s5 == s4 \o (IF font = "loaded" THEN <<"set_font_instance">> ELSE <<>>)
                     \o <<"build_display_list">>
            sent == send_display_list(window)
            panics == \/ ~windowOk \/ ~ctxOk \/ SizeQueryFails(window) \/ ~rendererOk
                      \/ font = "unreadable"
        IN  /\ calls' = IF ~windowOk THEN s0
                        ELSE IF ~ctxOk THEN s1
                        ELSE IF SizeQueryFails(window) THEN s2
                        ELSE IF ~rendererOk THEN s3
                        ELSE IF font = "unreadable" THEN s4
                        ELSE s5 \o sent.calls
            /\ status' = IF panics THEN "panicked" ELSE "running"
            /\ submitted' = IF panics THEN submitted ELSE Append(submitted, epoch)
            /\ frameRequested' = ~panics
            /\ frame' = IF panics THEN NoFrame ELSE [NoFrame EXCEPT !.layout = sent.layout]
    /\ log' = <<>>
    /\ UNCHANGED <<anim, debug, window, wakeups, deinits, event, onEventRet>>

\* The events loop hands one event to the closure.
FrameLoop ==
    /\ status = "running"
    /\ \E ev \in Events :
       \E ret \in (IF CallsOnEvent(ev) THEN BOOLEAN ELSE {FALSE}) :
       \E ctxOk, presentOk \in (IF IsWindowEvent(ev) /\ ~IsQuit(ev) /\ ~SkipsFrame(ev, ret)
                                THEN BOOLEAN ELSE {TRUE}) :
       \E glFault \in (IF debug /\ IsWindowEvent(ev) /\ ~IsQuit(ev) /\ ~SkipsFrame(ev, ret)
                       THEN GlFaults ELSE {"none"}) :
       \E r \in {frame_loop(ev, ret, window, ctxOk, glFault, presentOk, debug)} :
            /\ ev = Awakened => wakeups > 0
            /\ r.submits => Len(submitted) < MaxSubmits
            /\ wakeups' = IF ev = Awakened THEN wakeups - 1 ELSE wakeups
            /\ event' = ev
            /\ onEventRet' = ret
            /\ calls' = r.calls
            /\ log' = r.log
            /\ frame' = r.frame
            /\ submitted' = IF r.submits THEN Append(submitted, epoch) ELSE submitted
            /\ frameRequested' = (frameRequested \/ r.submits)
            /\ status' = CASE r.flow = "Break" -> "stopped"
                           [] r.flow = "Panic" -> "panicked"
                           [] OTHER -> "running"
    /\ UNCHANGED <<anim, debug, window, deinits>>

\* run() after run_forever has returned: compositor.deinit().
Deinit ==
    /\ status = "stopped"
    /\ \E ctxOk \in BOOLEAN :
        LET d == deinit(ctxOk)
        IN  /\ calls' = d.calls
            /\ log' = d.log
    /\ deinits' = deinits + 1
    /\ status' = "done"
    /\ frame' = NoFrame
    /\ UNCHANGED <<anim, debug, window, wakeups, frameRequested, submitted, event, onEventRet>>

\* The renderer has the requested frame: Notifier::new_frame_ready, which
\* is wake_up, which posts an Awakened event through the events-loop proxy
\* (on every target but android, where wake_up does nothing).
NewFrameReady ==
    /\ status = "running"
    /\ frameRequested
    /\ wakeups < MaxWake
    /\ wakeups' = wakeups + 1
    /\ frameRequested' = FALSE
    /\ UNCHANGED <<anim, status, debug, window, submitted, deinits, event, onEventRet,
                   calls, log, frame>>

\* The windowing service: the window's metrics change between two events.
WindowChanged ==
    /\ status = "running"
    /\ \E w \in LoopWindows :
        /\ w # window
        /\ \/ w = [window EXCEPT !.hidpi = w.hidpi]
           \/ w = [window EXCEPT !.inner = w.inner]
           \/ w = [window EXCEPT !.outer = w.outer]
        /\ window' = w
    /\ UNCHANGED <<anim, status, debug, wakeups, frameRequested, submitted, deinits,
                   event, onEventRet, calls, log, frame>>

Next == Startup \/ FrameLoop \/ Deinit \/ NewFrameReady \/ WindowChanged

Spec == Init /\ [][Next]_vars

\* ------------------------------------------- the coordinate resolver alone

\* Every window the resolver is applied to: all scales, all positions, all
\* inner and outer sizes up to MaxDim, and the failures of each query.
Dims == 0..MaxDim
AllSizes == {None} \cup {Some(w, h) : w \in Dims, h \in Dims}
\* A window of 800 x 600 logical pixels on a display of scale 2.0.
ScenarioWindow ==
    [hidpi |-> 2 * HidpiDen, outer |-> Some(MaxDim, MaxDim), inner |-> Some(800, 600),
     position |-> None]
AllWindows ==
    [hidpi : HidpiFactors, outer : OuterSizes, inner : AllSizes, position : Positions]
    \cup {ScenarioWindow}

CoordInit ==
    /\ status = "coords"
    /\ debug = FALSE
    /\ window \in AllWindows
    /\ wakeups = 0
    /\ frameRequested = FALSE
    /\ submitted = <<>>
    /\ deinits = 0
    /\ event = NoEvent
    /\ onEventRet = FALSE
    /\ calls = <<>>
    /\ log = <<>>
    /\ frame = NoFrame
    /\ anim = NewAnimation

CoordUnchanged ==
    UNCHANGED <<anim, status, debug, window, wakeups, frameRequested, submitted, deinits,
                event, onEventRet, log>>

\* window.get_coordinates() on the current window.
ResolveCoordinates ==
    /\ ~SizeQueryFails(window)
    /\ calls' = <<"get_coordinates">>
    /\ frame' = [NoFrame EXCEPT !.coords = get_coordinates(window),
                                !.size = get_coordinates(window).framebuffer]
    /\ CoordUnchanged

\* The layout size send_display_list hands to set_display_list.
ResolveLayoutSize ==
    /\ ~SizeQueryFails(window)
    /\ calls' = send_display_list(window).calls
    /\ frame' = [NoFrame EXCEPT !.coords = get_coordinates(window),
                                !.layout = send_display_list(window).layout]
    /\ CoordUnchanged

\* clear_background's rectangle: the flipped viewport of fresh coordinates.
ResolveFlippedViewport ==
    /\ ~SizeQueryFails(window)
    /\ calls' = <<"get_coordinates", "get_flipped_viewport">>
    /\ \E c \in {get_coordinates(window)} : \E v \in {get_flipped_viewport(c)} :
        frame' = [NoFrame EXCEPT !.coords = c,
                     !.scissor = <<v.origin[1], v.origin[2], v.size[1], v.size[2]>>]
    /\ CoordUnchanged

CoordNext == ResolveCoordinates \/ ResolveLayoutSize \/ ResolveFlippedViewport

CoordSpec == CoordInit /\ [][CoordNext]_vars

\* ------------------------------------------------ the viewport flip alone

\* EmbedderCoordinates is a plain value with public fields: any viewport
\* within any framebuffer, the viewport not bound to the framebuffer.
AnyCoords ==
    {[NoCoords EXCEPT !.viewport = [origin |-> <<x, y>>, size |-> <<w, h>>],
                      !.framebuffer = <<fw, fh>>] :
        x \in {0, 1}, y \in Dims, w \in {MaxDim}, h \in Dims, fw \in {MaxDim}, fh \in Dims}

Rect(v) == <<v.origin[1], v.origin[2], v.size[1], v.size[2]>>

FlipInit ==
    /\ status = "flip"
    /\ debug = FALSE
    /\ window \in {ScenarioWindow}
    /\ wakeups = 0
    /\ frameRequested = FALSE
    /\ submitted = <<>>
    /\ deinits = 0
    /\ event = NoEvent
    /\ onEventRet = FALSE
    /\ calls = <<>>
    /\ log = <<>>
    /\ \E c \in AnyCoords : frame = [NoFrame EXCEPT !.coords = c, !.scissor = Rect(c.viewport)]
    /\ anim = NewAnimation

\* get_flipped_viewport on the coordinates whose viewport is the rectangle
\* the last flip returned (the original viewport at first).
FlipViewport ==
    /\ Len(calls) < MaxFlips
    /\ calls' = Append(calls, "get_flipped_viewport")
    /\ \E cur \in {[origin |-> <<frame.scissor[1], frame.scissor[2]>>,
                     size |-> <<frame.scissor[3], frame.scissor[4]>>]} :
        frame' = [frame EXCEPT !.scissor =
                    Rect(get_flipped_viewport([frame.coords EXCEPT !.viewport = cur]))]
    /\ CoordUnchanged

FlipNext == FlipViewport

FlipSpec == FlipInit /\ [][FlipNext]_vars

\* ------------------------------------------- examples/animation.rs

\* virtual_keycode of the keyboard events given to Animation::on_event.
AnimKeys == {"NoKey", "Escape", "A", "Up", "Down", "Left", "Right", "R"}
\* on_event takes a winit::WindowEvent.
AnimEvents ==
    {CloseRequested, CursorMoved, AxisMotion, Resized}
    \cup {Ev("KeyboardInput", s, k) : s \in {"Pressed", "Released"}, k \in AnimKeys}

\* Animation::transform: delta_angle in radians, delta_opacity in tenths;
\* 0.1, 0.2 and 0.15 of a radian are 2, 4 and 3 twentieths. One
\* transaction: update_dynamic_properties, generate_frame, send_transaction.
transform(self, delta_angle, delta_opacity) ==
    [self |-> [opacity |-> self.opacity + delta_opacity,
               angle0 |-> self.angle0 + delta_angle * 2,
               angle1 |-> self.angle1 + delta_angle * 4,
               angle2 |-> self.angle2 - delta_angle * 3],
     calls |-> <<"update_dynamic_properties", "generate_frame", "send_transaction">>]

\* on_event as it would be if an unlisted key fell through to transform.
on_event_AnyKeyTransforms(self, ev) ==
    IF ev.kind = "KeyboardInput" /\ ev.state = "Released" /\ ev.key # "NoKey"
    THEN LET delta == CASE ev.key = "Down" -> <<0, 0 - 1>>
                        [] ev.key = "Up" -> <<0, 1>>
                        [] ev.key = "Right" -> <<1, 0>>
                        [] ev.key = "Left" -> <<0 - 1, 0>>
                        [] OTHER -> <<0, 0>>
             t == transform(self, delta[1], delta[2])
         IN  [self |-> t.self, calls |-> t.calls, ret |-> ev.key = "R"]
    ELSE [self |-> self, calls |-> <<>>, ret |-> FALSE]

\* Animation::on_event: what it leaves in self, what it sends, what it
\* returns (rebuild_display_list).
on_event(self, ev) ==
    IF ev.kind = "KeyboardInput" /\ ev.state = "Released" /\ ev.key # "NoKey"
    THEN IF ev.key \in {"Down", "Up", "Right", "Left", "R"}
         THEN LET delta == CASE ev.key = "Down" -> <<0, 0 - 1>>
                             [] ev.key = "Up" -> <<0, 1>>
                             [] ev.key = "Right" -> <<1, 0>>
                             [] ev.key = "Left" -> <<0 - 1, 0>>
                             [] ev.key = "R" -> <<0, 0>>
                  t == transform(self, delta[1], delta[2])
              IN  [self |-> t.self, calls |-> t.calls, ret |-> ev.key = "R"]
         ELSE [self |-> self, calls |-> <<>>, ret |-> FALSE]
    ELSE [self |-> self, calls |-> <<>>, ret |-> FALSE]

AnimInit ==
    /\ status = "anim"
    /\ debug = FALSE
    /\ window \in {ScenarioWindow}
    /\ wakeups = 0
    /\ frameRequested = FALSE
    /\ submitted = <<>>
    /\ deinits = 0
    /\ event = NoEvent
    /\ onEventRet = FALSE
    /\ calls = <<>>
    /\ log = <<>>
    /\ frame = NoFrame
    /\ anim = NewAnimation

\* The frame loop gives an event to Animation::on_event. The model stops
\* MaxAnimSteps steps of opacity or of angle away from the first state.
AnimOnEvent ==
    /\ \E ev \in AnimEvents : \E r \in {on_event(anim, ev)} :
        /\ r.self.opacity - NewAnimation.opacity \in (0 - MaxAnimSteps)..MaxAnimSteps
        /\ r.self.angle0 \in (0 - 2 * MaxAnimSteps)..(2 * MaxAnimSteps)
        /\ anim' = r.self
        /\ event' = ev
        /\ onEventRet' = r.ret
        /\ calls' = r.calls
    /\ UNCHANGED <<status, debug, window, wakeups, frameRequested, submitted, deinits,
                   log, frame>>

AnimNext == AnimOnEvent

AnimSpec == AnimInit /\ [][AnimNext]_vars

\* ------------------------------------------------------------ the claims

\* The last step was an invocation of the frame loop's closure.
InLoop == event # NoEvent /\ status \in {"running", "panicked", "stopped"}
\* A step of the frame loop's closure: the only step from "running" that
\* neither changes the window nor queues a wake-up.
LoopStep == status = "running" /\ window' = window /\ wakeups' <= wakeups
LastCall == IF calls = <<>> THEN "none" ELSE calls[Len(calls)]
\* What an iteration that draws may call, on_event apart.
BuildOps == {"build_display_list", "get_layout_size", "send_display_list"}
CompositeOps == {"make_gl_context_current", "bind_framebuffer", "update",
                 "get_coordinates", "clear", "scissor", "render"}
FrameOps == BuildOps \cup CompositeOps \cup {"draw_custom", "present"}
NoneOf(ops) == \A i \in 1..Len(calls) : calls[i] \notin ops
MotionEvents == {CursorMoved, AxisMotion}
QuitEvents == {CloseRequested, Ev("KeyboardInput", "Pressed", "Escape")}

\* C1: every scene submission carries an epoch strictly greater than the
\* epoch of every earlier submission.
C1_EpochStrictlyIncreasing ==
    \A i, j \in 1..Len(submitted) : i < j => submitted[i] < submitted[j]

\* C2: an iteration given a CursorMoved or AxisMotion event for which
\* on_event returned false builds, submits, composites, draws and presents
\* nothing, and the loop goes on waiting for the next event.
C2_MotionWithoutRebuildSkipsFrame ==
    (InLoop /\ event \in MotionEvents /\ ~onEventRet) =>
        /\ calls = <<"on_event">>
        /\ NoneOf(FrameOps)
        /\ frame = NoFrame
        /\ status = "running"

C2_Witness ==
    /\ status = "running"
    /\ event = CursorMoved
    /\ ~onEventRet
    /\ calls = <<"on_event">>

\* C3: once CloseRequested or a press of Escape was handled, the loop has
\* stopped: that iteration called neither on_event nor any build, submit,
\* composite, draw_custom or present, none is called afterwards, and
\* webrender.deinit is called exactly once, by the step that ends run().
C3_QuitStopsLoopAndDeinitsOnce ==
    /\ (event \in QuitEvents) =>
        /\ status \in {"stopped", "done"}
        /\ NoneOf({"on_event", "draw_custom", "present", "bind_framebuffer",
                   "update", "clear", "scissor", "render"} \cup BuildOps)
        /\ status = "stopped" => (calls = <<>> /\ deinits = 0)
        /\ status = "done" => (LastCall = "deinit" /\ Count(calls, "deinit") = 1
                               /\ deinits = 1)
    /\ (status \in {"stopped", "done"}) => event \in QuitEvents
    /\ deinits > 0 => status = "done"

C3_Witness ==
    /\ event = Ev("KeyboardInput", "Pressed", "Escape")
    /\ status = "done"
    /\ deinits = 1

\* C4: every window event that is no close request, no press of Escape and
\* no pointer or axis motion is given to on_event exactly once, and the
\* scene is rebuilt and resubmitted in that iteration if and only if
\* on_event returned true.
C4_OtherEventsDispatchedOnce ==
    (InLoop /\ event \in WindowEvents \ (QuitEvents \cup MotionEvents)) =>
        /\ Count(calls, "on_event") = 1
        /\ Has(calls, "build_display_list") <=> onEventRet

\* C5: an iteration that composites (the renderer is updated for the
\* frame) also presents, exactly once.
C5_CompositeThenPresent ==
    (InLoop /\ Has(calls, "update")) => Count(calls, "present") = 1

\* C6: if make_gl_context_current fails at the start of composite, the
\* frame is skipped: no framebuffer bind, no clear, no render, and the
\* loop goes on.
C6_ContextFailureSkipsFrame ==
    (InLoop /\ Has(log, "Failed to make GL context current")) =>
        /\ NoneOf({"bind_framebuffer", "clear", "render"})
        /\ status = "running"

\* C7: if a query of the window's size fails inside the frame loop, the
\* loop keeps running.
C7_SizeQueryFailureNotFatal ==
    (InLoop /\ SizeQueryFails(window)
            /\ LastCall \in {"get_coordinates", "get_layout_size"}) =>
        status = "running"

\* C8: a failure of present is printed and nothing more: the iteration
\* ends with the present call, the loop keeps running, the state it leaves
\* is the state the same iteration leaves when present succeeds, and the
\* next iteration that composites calls present again.
C8_PresentFailureNotFatal ==
    /\ []((InLoop /\ Has(log, "Failed to present surface")) =>
            /\ status = "running"
            /\ LastCall = "present"
            /\ Count(calls, "present") = 1)
    /\ [][(Has(log, "Failed to present surface") /\ event' # NoEvent
           /\ Has(calls', "render")) => Has(calls', "present")]_vars
    /\ [][(LoopStep /\ Has(log', "Failed to present surface")) =>
            \E ctxOk \in BOOLEAN, glFault \in GlFaults :
            \E r \in {frame_loop(event', onEventRet', window, ctxOk, glFault, TRUE, debug)} :
                /\ r.flow = "Continue"
                /\ status' = "running"
                /\ calls' = r.calls
                /\ frame' = r.frame
                /\ log' = r.log \o <<"Failed to present surface">>
                /\ submitted' = IF r.submits THEN Append(submitted, epoch) ELSE submitted
                /\ UNCHANGED <<window, deinits, debug>>]_vars

C8_Witness ==
    /\ status = "running"
    /\ Has(log, "Failed to present surface")
    /\ LastCall = "present"
    /\ Len(submitted) > 1

\* C9: an Awakened event, posted by the notifier, leads to an iteration
\* that composites and presents.
C9_WakeRepaints ==
    (InLoop /\ event = Awakened) => (Has(calls, "render") /\ Has(calls, "present"))

\* C10: the coordinates get_coordinates returns have the viewport at the
\* origin, viewport.size = framebuffer and layout = framebuffer /
\* hidpi_factor in both components, and the layout size get_layout_size
\* gives a scene submission is that layout.
C10_CoordinatesConsistent ==
    LET c == frame.coords
    IN  (calls # <<>>) =>
        /\ c.viewport.origin = <<0, 0>>
        /\ c.viewport.size = c.framebuffer
        /\ \A i \in {1, 2} :
            /\ RatEq(c.layout[i], <<c.framebuffer[i] * HidpiDen, c.hidpi_factor>>)
            /\ Has(calls, "send_display_list") => RatEq(frame.layout[i], c.layout[i])

C10_Witness ==
    /\ Has(calls, "send_display_list")
    /\ window.hidpi = HidpiDen + 1
    /\ window.inner = Some(MaxDim, 1)
    /\ frame.coords.framebuffer = <<ScaleToDevice(MaxDim, HidpiDen + 1), 1>>
    /\ frame.layout[1][1] > 0

Abs(n) == IF n < 0 THEN 0 - n ELSE n
\* d is the logical quantity n scaled by hidpi / HidpiDen, cut toward zero.
IsTruncation(d, n, hidpi) ==
    /\ Abs(d) * HidpiDen <= Abs(n * hidpi)
    /\ Abs(n * hidpi) < (Abs(d) + 1) * HidpiDen
    /\ d * n >= 0
IsTruncationOfPair(dd, a, b, hidpi) ==
    IsTruncation(dd[1], a, hidpi) /\ IsTruncation(dd[2], b, hidpi)

\* C11: every device-pixel quantity of the resolved coordinates (inner
\* size, outer size, position, screen size) is the logical quantity times
\* hidpi_factor cut toward zero; at scale 2.0 an inner size of (800, 600)
\* gives framebuffer (1600, 1200), layout (800, 600) and viewport
\* (0, 0, 1600, 1200).
C11_ScaledThenTruncated ==
    LET c == frame.coords
        h == window.hidpi
        pos == IF window.position.ok THEN window.position ELSE Some(0, 0)
    IN  (calls = <<"get_coordinates">>) =>
        /\ IsTruncationOfPair(c.framebuffer, window.inner.a, window.inner.b, h)
        /\ IsTruncationOfPair(c.viewport.size, window.inner.a, window.inner.b, h)
        /\ IsTruncationOfPair(c.window[1], window.outer.a, window.outer.b, h)
        /\ IsTruncationOfPair(c.window[2], pos.a, pos.b, h)
        /\ IsTruncationOfPair(c.screen, ScreenSize[1], ScreenSize[2], h)
        /\ (window = ScenarioWindow) =>
            /\ c.framebuffer = <<1600, 1200>>
            /\ c.viewport = [origin |-> <<0, 0>>, size |-> <<1600, 1200>>]
            /\ RatEq(c.layout[1], <<800, 1>>) /\ RatEq(c.layout[2], <<600, 1>>)

\* A negative position and an inner size whose products with 1.25 are no
\* integers: -3.75 is cut to -3, 3.75 to 3.
C11_Witness ==
    /\ calls = <<"get_coordinates">>
    /\ window.hidpi = HidpiDen + 1
    /\ window.position = Some(0 - MaxDim, 1)
    /\ window.inner = Some(MaxDim, MaxDim)
    /\ frame.coords.window[2][1] = 0 - ((MaxDim * (HidpiDen + 1)) \div HidpiDen)
    /\ frame.coords.framebuffer[1] * HidpiDen < MaxDim * (HidpiDen + 1)

\* C12: one flip leaves x and the size alone and sets origin.y to
\* framebuffer.height - origin.y - size.height; two flips with the same
\* framebuffer height give the original viewport back.
C12_FlipTwiceIsIdentity ==
    LET v == frame.coords.viewport
    IN  /\ Len(calls) = 1 =>
            frame.scissor = <<v.origin[1],
                              frame.coords.framebuffer[2] - v.origin[2] - v.size[2],
                              v.size[1], v.size[2]>>
        /\ (Len(calls) > 0 /\ Len(calls) % 2 = 0) => frame.scissor = Rect(v)

\* A viewport that is not its own flip, flipped twice; its first flip has
\* a negative origin.
C12_Witness ==
    /\ Len(calls) = 2
    /\ frame.coords.viewport.origin[2] = 1
    /\ frame.coords.viewport.size[2] = MaxDim
    /\ frame.coords.framebuffer[2] = MaxDim - 1
    /\ frame.scissor = Rect(frame.coords.viewport)

C14_RendererFailureIsFatal ==
    /\ [](LastCall = "Renderer::new" =>
            /\ status = "panicked"
            /\ submitted = <<>>
            /\ event = NoEvent
            /\ deinits = 0
            /\ Count(calls, "Renderer::new") = 1
            /\ NoneOf(BuildOps \cup {"on_event", "bind_framebuffer", "update", "clear",
                                    "scissor", "render", "draw_custom", "present"}))
    /\ [][LastCall # "Renderer::new"]_vars

C14_Witness ==
    /\ LastCall = "Renderer::new"
    /\ status = "panicked"
    /\ calls = <<"Window::new", "make_gl_context_current", "get_coordinates", "Renderer::new">>

BuildSeq == <<"build_display_list", "get_layout_size", "send_display_list">>
CompositeSeq == <<"make_gl_context_current", "bind_framebuffer", "update",
                  "get_coordinates", "clear", "get_coordinates", "scissor", "clear",
                  "render">>
\* The place of a call in an iteration.
Rank(op) ==
    CASE op = "on_event" -> 0
      [] op = "build_display_list" -> 1
      [] op = "get_layout_size" -> 2
      [] op = "send_display_list" -> 3
      [] op = "make_gl_context_current" -> 4
      [] op = "bind_framebuffer" -> 5
      [] op = "update" -> 6
      [] op \in {"get_coordinates", "clear", "scissor"} -> 7
      [] op = "render" -> 8
      [] op = "draw_custom" -> 9
      [] op = "present" -> 10
      [] OTHER -> 11

\* C15: an iteration that draws calls, in this order, build_display_list
\* and send_display_list (exactly when a rebuild is required), then
\* the composite (bind, update, clear, render), then draw_custom, then
\* present; an iteration cut short by a panic is a prefix of that order,
\* so no present precedes the composite and no submission follows it.
C15_DrawOrder ==
    InLoop =>
        /\ \A i, j \in 1..Len(calls) : i < j => Rank(calls[i]) <= Rank(calls[j])
        /\ Has(calls, "present") =>
            /\ Has(calls, "build_display_list") <=> custom_event(event, onEventRet)
            /\ calls = (IF CallsOnEvent(event) THEN <<"on_event">> ELSE <<>>)
                        \o (IF custom_event(event, onEventRet) THEN BuildSeq ELSE <<>>)
                        \o CompositeSeq \o <<"draw_custom", "present">>

C15_Witness ==
    /\ InLoop
    /\ calls = <<"on_event">> \o BuildSeq \o CompositeSeq \o <<"draw_custom", "present">>

\* What Compositor::composite issues on the GL context.
GlOps == {"bind_framebuffer", "update", "clear", "scissor", "render"}

\* C16: in every iteration, each framebuffer bind, clear and render of
\* the composite comes after an attempt, in that same iteration, to make
\* the GL context current, and the bind follows that attempt directly.
C16_MakeCurrentBeforeComposite ==
    InLoop =>
        \A i \in 1..Len(calls) :
            /\ calls[i] \in GlOps =>
                \E j \in 1..(i - 1) : calls[j] = "make_gl_context_current"
            /\ calls[i] = "bind_framebuffer" =>
                i > 1 /\ calls[i - 1] = "make_gl_context_current"

C16_Witness ==
    /\ InLoop
    /\ Has(calls, "render")
    /\ Count(calls, "make_gl_context_current") = 1
    /\ Has(log, "Failed to make GL context current")
    /\ Len(submitted) > 1

\* C17: the framebuffer size given to render and the clear rectangle of a
\* composite are those of the window as it is when the composite runs,
\* whatever the window was in earlier iterations: the inner size scaled
\* by the hidpi factor, and the whole of that framebuffer.
C17_ViewportFromCurrentWindow ==
    [][(LoopStep /\ Has(calls', "render")) =>
        LET w == to_i32(window.inner.a * window.hidpi, HidpiDen)
            h == to_i32(window.inner.b * window.hidpi, HidpiDen)
        IN  /\ frame'.size = <<w, h>>
            /\ frame'.scissor = <<0, h - 0 - h, w, h>>
            /\ frame'.coords = get_coordinates(window)
            /\ frame'.coords.hidpi_factor = window.hidpi]_vars

C17_Witness ==
    /\ InLoop
    /\ event = Resized
    /\ Has(calls, "render")
    /\ window.hidpi = 2 * HidpiDen
    /\ frame.size = <<2 * MaxDim, 2 * (MaxDim - 1)>>
    /\ frame.scissor = <<0, 0, 2 * MaxDim, 2 * (MaxDim - 1)>>

\* C18: when run() enters the events loop it has asked the strategy for
\* its image handlers and installed those provided, then built the first
\* scene and submitted it, once, with epoch 0; until the loop handles its
\* first event there is no on_event, composite or present, and every
\* event is handled after that first submission.
C18_InitialSceneBeforeLoop ==
    /\ status = "start" => calls = <<>> /\ submitted = <<>> /\ event = NoEvent
    /\ (status = "running" /\ event = NoEvent) =>
        /\ submitted = <<0>>
        /\ Count(calls, "build_display_list") = 1
        /\ Count(calls, "send_display_list") = 1
        /\ LastCall = "send_display_list"
        /\ Count(calls, "get_image_handlers") = 1
        /\ \A i, j \in 1..Len(calls) :
            /\ (calls[i] = "get_image_handlers" /\ calls[j] = "build_display_list") => i < j
            /\ (calls[i] \in {"set_output_image_handler", "set_external_image_handler"}
                /\ calls[j] = "get_image_handlers") => j < i
            /\ (calls[i] \in {"set_output_image_handler", "set_external_image_handler"}
                /\ calls[j] = "build_display_list") => i < j
            /\ (calls[i] = "build_display_list" /\ calls[j] = "send_display_list") => i < j
        /\ NoneOf({"on_event", "bind_framebuffer", "update", "clear", "scissor",
                   "render", "draw_custom", "present"})
    /\ event # NoEvent => (Len(submitted) >= 1 /\ submitted[1] = 0)

C18_Witness ==
    /\ status = "running"
    /\ event = NoEvent
    /\ submitted = <<0>>
    /\ Has(calls, "set_output_image_handler")
    /\ Has(calls, "set_external_image_handler")
    /\ LastCall = "send_display_list"

Arrows == {"Up", "Down", "Left", "Right"}
Transaction == <<"update_dynamic_properties", "generate_frame", "send_transaction">>

\* C19: Animation::on_event returns true exactly for a release of R; a
\* release of an arrow key moves opacity (Up, Down) or the angles (Left,
\* Right), sends one transaction that updates the dynamic properties and
\* asks for a frame, and returns false; a release of another key, a press
\* and any other event leave the animation as it was, send nothing and
\* return false.
C19_AnimationOnEvent ==
    [][LET ev == event'
           release == ev.kind = "KeyboardInput" /\ ev.state = "Released"
       IN  /\ onEventRet' <=> (release /\ ev.key = "R")
           /\ (release /\ ev.key \in Arrows) =>
               /\ ~onEventRet'
               /\ calls' = Transaction
               /\ Count(calls', "send_transaction") = 1
               /\ anim' # anim
               /\ ev.key = "Up" => anim' = [anim EXCEPT !.opacity = @ + 1]
               /\ ev.key = "Down" => anim' = [anim EXCEPT !.opacity = @ - 1]
               /\ ev.key = "Right" =>
                   anim' = [anim EXCEPT !.angle0 = @ + 2, !.angle1 = @ + 4, !.angle2 = @ - 3]
               /\ ev.key = "Left" =>
                   anim' = [anim EXCEPT !.angle0 = @ - 2, !.angle1 = @ - 4, !.angle2 = @ + 3]
           /\ ~(release /\ ev.key \in Arrows \cup {"R"}) =>
               /\ ~onEventRet'
               /\ calls' = <<>>
               /\ anim' = anim]_vars

C19_Witness ==
    /\ status = "anim"
    /\ event = Ev("KeyboardInput", "Released", "Left")
    /\ ~onEventRet
    /\ calls = Transaction
    /\ anim = [opacity |-> 6, angle0 |-> 0 - 2, angle1 |-> 0 - 4, angle2 |-> 3]

====
